---- MODULE Spec2Model ----
(***************************************************************************)
(* The hooks runtime of state.md ("How useState Works Internally", "How    *)
(* useEffect Works Internally") hosting one component instance, driven by  *)
(* a host that mounts it, runs event handlers (tasks) and unmounts it.     *)
(*                                                                         *)
(* The instance body registers four state cells and three effects, taken   *)
(* from the guide's example components:                                    *)
(*   a  count  (Counter / CounterFixed / BadComponent's conditional hook)  *)
(*   b  a second cell (Form's email, BadComponent's name)                  *)
(*   r  a reducer-backed cell, useReducer((state) => state + 1, 0)         *)
(*   p  a plain cell driven by setP(prev => reducer(prev, action))         *)
(*   effect 0  watch-list [a]   (Example, UserFetcher)                     *)
(*   effect 1  watch-list []    (TimerComponent, StaleClosure)             *)
(*   effect 2  no watch-list    (OrderMystery; Error 5 when it sets state) *)
(*                                                                         *)
(* The same runtime also hosts the example components Counter (one cell)   *)
(* and UserFetcher (four cells, one effect that fetches, and the promise   *)
(* chain of each fetch, also when it completes after teardown), the       *)
(* component with an interval of state.md:776-787 and a component whose    *)
(* cell has an initializer thunk.  TodoUseReducer is modelled by its       *)
(* reducer and its three handlers.                                         *)
(***************************************************************************)
EXTENDS Integers, Sequences, FiniteSets, TLC

VARIABLES
  componentStates,  \* state.md:192  slot -> stored value
  hookIndex,        \* state.md:193  position of the next useState call
  effectCallbacks,  \* state.md:355  effect index -> [deps, cleanup]
  effectIndex,      \* position of the next useEffect call
  effectQueue,      \* thunks handed to scheduleEffect, not yet run
  sched,            \* "Idle", "BatchOpen", "Flushing"
  newBatch,         \* an effect body called mutate while Flushing: the
                    \* next batch opens once this flush is over
  pc,               \* position inside a flush: "none", "activate", "effects"
  mounted,          \* "no", "yes", "torndown"
  err,              \* "None" or the fatal condition raised
  config,           \* which component is hosted: "good", "bad", "loopy",
                    \* "arity", "counter" (Counter.jsx), "fetch"
                    \* (UserFetcher.jsx), "todo" (TodoUseReducer.jsx),
                    \* "interval" (state.md:776-787) or "lazy"
  show,             \* BadComponent's prop shouldShowCounter
  hookCount,        \* number of useState calls of the previous activation
  rendered,         \* cell name -> value the last activation got for it
  readSlot,         \* cell name -> slot the last activation read for it
  task,             \* calls the running event handler has still to make
  tasksDone,        \* number of event handlers started so far
  renderNo,         \* number of activations so far
  actsInTask,       \* activations since the current external task began
  diagnostics,      \* anomalies reported out of band, not fatal
  requests,         \* UserFetcher: the fetch calls made, each with its
                    \* AbortController
  \* TodoUseReducer, part_000:12-31
  todos,            \* the reducer-backed list of items [id, text]
  text,             \* the input's value
  clock,            \* what Date.now() returns
  \* history variables
  prevTodos,        \* todos before the last dispatch
  lastAction,       \* the action last dispatched to the todo reducer
  owner,            \* slot -> cell name that seeded it
  prevRendered,     \* rendered, as it was before the last activation
  ranInPass,        \* effects whose body ran since the last activation
  runs,             \* effect index -> number of body invocations
  out,              \* effect index -> cleanup returned by the most recent
                    \* body invocation and not invoked since (0: none)
  log,              \* events of the current external task, in order
  handler,          \* name of the current event handler
  startA,           \* stored value of cell a when the handler began
  arity,            \* lengths of the watch-list effect 0 was registered with
                    \* at the previous and at the last activation
  muts,             \* arguments of the handler's mutate calls on cell a
  clicked,          \* Counter: increments clicked since the last Reset
  nMut,             \* mutate calls made by the current handler
  nFlush,           \* flushes since the current handler began
  nPass,            \* effect passes since the current handler began
  effMut            \* an effect body called mutate in the current task

vars == <<componentStates, hookIndex, effectCallbacks, effectIndex,
          effectQueue, sched, newBatch, pc, mounted, err, config, show,
          hookCount, rendered, readSlot, task, tasksDone, renderNo,
          actsInTask, diagnostics, requests, arity, owner, prevRendered,
          ranInPass, runs, out, log, handler, startA, muts, clicked, nMut,
          nFlush, nPass, effMut, todos, text, clock, prevTodos, lastAction>>

\* The state of TodoUseReducer
todoVars == <<todos, text, clock, prevTodos, lastAction>>

\* The state of the hooks runtime and its host
runtimeVars ==
  <<componentStates, hookIndex, effectCallbacks, effectIndex, effectQueue,
    sched, newBatch, pc, mounted, err, config, show, hookCount, rendered,
    readSlot, task, tasksDone, renderNo, actsInTask, diagnostics, requests,
    arity, owner, prevRendered, ranInPass, runs, out, log, handler, startA,
    muts, clicked, nMut, nFlush, nPass, effMut>>

\* What a handler of TodoUseReducer leaves alone of the runtime: all but the
\* scheduler's state and the name of the handler
todoFrame ==
  <<componentStates, hookIndex, effectCallbacks, effectIndex, effectQueue,
    newBatch, pc, mounted, err, config, show, hookCount, rendered, readSlot,
    task, tasksDone, renderNo, actsInTask, diagnostics, requests, arity,
    owner, prevRendered, ranInPass, runs, out, log, startA, muts, clicked,
    nMut, nFlush, nPass, effMut>>

----------------------------------------------------------------------------
(* Bounds and constants *)

MaxTasks == 3        \* event handlers the host runs over an instance's life

MaxTodos == 3        \* items the todo list is let grow to

MaxClock == 2        \* milliseconds the clock is let advance

RenderCeiling == 25  \* re-activation ceiling of one external task

Undefined == -1      \* JavaScript's undefined (an unset slot, no return)

Null == -2           \* JavaScript's null, UserFetch.jsx:6

JsFalse == 0         \* false, UserFetch.jsx:24

JsTrue == 1          \* true, UserFetch.jsx:7

ErrorMessage == -3   \* err.message, UserFetch.jsx:22

\* A function object () => v, a value that is none of the values v
ThunkOf(v) == 1000 + v

LazyValue == 7       \* what the initializer thunk of "lazy" returns

\* The object r.json() yields for users/${userId}, UserFetch.jsx:15-18
UserData(userId) == 100 + userId

CellNames == {"a", "b", "r", "p"}      \* the cells the instance body registers

EffectIds == {0, 1, 2}                 \* the effects it registers, by position

NCells == Cardinality(CellNames)

NEffects == Cardinality(EffectIds)

\* A cell an event handler tries to register, state.md:614-620
StrayNames == {"x"}

\* The cells of UserFetcher, UserFetch.jsx:5-8
FetchNames == {"userId", "user", "loading", "error"}

AllNames == CellNames \cup StrayNames \cup FetchNames

\* componentStates is a JavaScript array: it grows when a slot past its end
\* is written, which a handler can do once per task.
Slots == 0 .. (NCells + MaxTasks - 1)

\* The dependencies argument omitted, and given
NoDeps == [given |-> FALSE, list |-> <<>>]

Deps(l) == [given |-> TRUE, list |-> l]

----------------------------------------------------------------------------
(* The runtime state the hooks read and write, as one record *)

Pack ==
  [cs |-> componentStates, hookIndex |-> hookIndex, ec |-> effectCallbacks,
   effectIndex |-> effectIndex, q |-> effectQueue, sched |-> sched,
   newBatch |-> newBatch, rendered |-> rendered, readSlot |-> readSlot,
   renderNo |-> renderNo, owner |-> owner, ranInPass |-> ranInPass,
   runs |-> runs, out |-> out, log |-> log, effMut |-> effMut,
   diag |-> diagnostics, req |-> requests, live |-> mounted # "torndown"]

Unpack(st) ==
  /\ componentStates' = st.cs
  /\ hookIndex' = st.hookIndex
  /\ effectCallbacks' = st.ec
  /\ effectIndex' = st.effectIndex
  /\ effectQueue' = st.q
  /\ sched' = st.sched
  /\ newBatch' = st.newBatch
  /\ rendered' = st.rendered
  /\ readSlot' = st.readSlot
  /\ renderNo' = st.renderNo
  /\ owner' = st.owner
  /\ ranInPass' = st.ranInPass
  /\ runs' = st.runs
  /\ out' = st.out
  /\ log' = st.log
  /\ effMut' = st.effMut
  /\ diagnostics' = st.diag
  /\ requests' = st.req

----------------------------------------------------------------------------
(* Helpers the guide calls but does not define *)

\* scheduleRender(): the first call of a task opens a batch, later calls join
\* it, a call made while a flush is running opens the next batch.  An
\* instance that was torn down is not activated again.
ScheduleRender(st) ==
  IF ~st.live THEN st
  ELSE IF st.sched = "Idle" THEN [st EXCEPT !.sched = "BatchOpen"]
  ELSE IF st.sched = "Flushing" THEN [st EXCEPT !.newBatch = TRUE]
  ELSE st

\* getCurrentEffectIndex(): the registration position of the useEffect call
GetCurrentEffectIndex(st) == st.effectIndex

\* areArraysEqual(a, b): same length and Object.is at every position
AreArraysEqual(a, b) ==
  /\ a.given /\ b.given
  /\ Len(a.list) = Len(b.list)
  /\ \A k \in 1 .. Len(a.list) : a.list[k] = b.list[k]

\* What areArraysEqual(a, b) reports out of band: a watch-list whose length
\* differs from the one of the previous activation.
ReportArity(st, idx, a, b) ==
  IF a.given /\ b.given /\ Len(a.list) # Len(b.list)
  THEN [st EXCEPT !.diag = @ \cup {<<"WatchListArityChanged", idx,
                                     st.renderNo>>}]
  ELSE st

\* scheduleEffect(thunk): the thunk runs after the render, in call order
ScheduleEffect(st, thunk) == [st EXCEPT !.q = Append(@, thunk)]

----------------------------------------------------------------------------
(* Updater functions and reducers of the examples *)

\* (state) => state + 1, state.md:1064
Reducer(state, action) == state + 1

\* Variant of the updater functions with one slip: Prev has no floor.
ApplyFn_PrevUnclamped(fn, prev) ==
  CASE fn = "inc" -> prev + 1
    [] fn = "prev" -> prev - 1
    [] fn = "log" -> Undefined
    [] OTHER -> Reducer(prev, "null")

\* prev => prev + 1 (state.md:299), id => Math.max(1, id - 1)
\* (UserFetch.jsx:34), prev => console.log(prev) (state.md:782), which
\* returns undefined, and prev => reducer(prev, action)
ApplyFn(fn, prev) ==
  CASE fn = "inc" -> prev + 1
    [] fn = "prev" -> IF prev - 1 > 1 THEN prev - 1 ELSE 1
    [] fn = "log" -> Undefined
    [] OTHER -> Reducer(prev, "null")

\* Variant of the todo reducer with one slip: the new item is put first.
TodoReducer_Prepend(state, action, now) ==
  CASE action.type = "add" ->
         <<[id |-> now, text |-> action.text]>> \o state
    [] action.type = "remove" ->
         SelectSeq(state, LAMBDA t : t.id # action.id)
    [] OTHER -> state

\* reducer(state, action) of TodoUseReducer, part_000:4-10, with the value
\* of Date.now() as the argument now
TodoReducer(state, action, now) ==
  CASE action.type = "add" ->
         Append(state, [id |-> now, text |-> action.text])
    [] action.type = "remove" ->
         SelectSeq(state, LAMBDA t : t.id # action.id)
    [] OTHER -> state

\* { type: 'add', payload: text } and { type: 'remove', payload: id }
AddAction(payload) == [type |-> "add", text |-> payload, id |-> 0]

RemoveAction(payload) == [type |-> "remove", text |-> "", id |-> payload]

\* { type: 'toggle' }: a type that is neither 'add' nor 'remove'
OtherAction == [type |-> "toggle", text |-> "", id |-> 0]

\* What can be typed into the input
TodoTexts == {"", "milk", "eggs"}

Lit(v) == [isFn |-> FALSE, val |-> v, fn |-> "none"]

Fn(f) == [isFn |-> TRUE, val |-> 0, fn |-> f]

----------------------------------------------------------------------------
(* useState, state.md:195-222 *)

\* Variants of setState with one slip each.
\* The store is made but no render is requested.
SetState_NoSchedule(st, currentIndex, newValue) ==
  LET nextValue == IF newValue.isFn
                   THEN ApplyFn(newValue.fn, st.cs[currentIndex])
                   ELSE newValue.val
  IN  [st EXCEPT !.cs[currentIndex] = nextValue]

\* The updater is given the value the render returned, not the stored one.
SetState_StaleUpdater(st, currentIndex, newValue) ==
  LET name == CHOOSE n \in CellNames : st.readSlot[n] = currentIndex
      nextValue == IF newValue.isFn
                   THEN ApplyFn(newValue.fn, st.rendered[name])
                   ELSE newValue.val
  IN  ScheduleRender([st EXCEPT !.cs[currentIndex] = nextValue])

\* A call made while a batch is already open is dropped.
SetState_DropQueued(st, currentIndex, newValue) ==
  LET nextValue == IF newValue.isFn
                   THEN ApplyFn(newValue.fn, st.cs[currentIndex])
                   ELSE newValue.val
  IN  IF st.sched = "BatchOpen" THEN st
      ELSE ScheduleRender([st EXCEPT !.cs[currentIndex] = nextValue])

\* The new value is also written into the value the running render or
\* handler holds for the cell.
SetState_WritesView(st, currentIndex, newValue) ==
  LET name == CHOOSE n \in CellNames : st.readSlot[n] = currentIndex
      nextValue == IF newValue.isFn
                   THEN ApplyFn(newValue.fn, st.cs[currentIndex])
                   ELSE newValue.val
  IN  ScheduleRender([st EXCEPT !.cs[currentIndex] = nextValue,
                                !.rendered[name] = nextValue])

\* A falsy literal (0) is taken for "no value given" and the old value kept.
SetState_FalsyIgnored(st, currentIndex, newValue) ==
  LET nextValue == IF newValue.isFn
                   THEN ApplyFn(newValue.fn, st.cs[currentIndex])
                   ELSE IF newValue.val = 0 THEN st.cs[currentIndex]
                        ELSE newValue.val
  IN  ScheduleRender([st EXCEPT !.cs[currentIndex] = nextValue])

\* An updater is applied a second time to its own result.
SetState_AppliesTwice(st, currentIndex, newValue) ==
  LET nextValue == IF newValue.isFn
                   THEN ApplyFn(newValue.fn,
                                ApplyFn(newValue.fn, st.cs[currentIndex]))
                   ELSE newValue.val
      stored == [st EXCEPT !.cs[currentIndex] = nextValue]
  IN  ScheduleRender(stored)

\* A call made while a flush is running is taken for part of that flush:
\* the value is stored and no further render is requested.
SetState_JoinsFlush(st, currentIndex, newValue) ==
  LET nextValue == IF newValue.isFn
                   THEN ApplyFn(newValue.fn, st.cs[currentIndex])
                   ELSE newValue.val
      stored == [st EXCEPT !.cs[currentIndex] = nextValue]
  IN  IF st.sched = "Flushing" THEN stored ELSE ScheduleRender(stored)

\* setState of the cell at slot currentIndex, state.md:207-218
SetState(st, currentIndex, newValue) ==
  LET nextValue == IF newValue.isFn
                   THEN ApplyFn(newValue.fn, st.cs[currentIndex])
                   ELSE newValue.val
      stored == [st EXCEPT !.cs[currentIndex] = nextValue]
  IN  ScheduleRender(stored)

\* dispatch of the reducer-backed cell: each dispatch applies the reducer to
\* the state the previous dispatch left, state.md:1064-1070
Dispatch(st, currentIndex, action) ==
  ScheduleRender([st EXCEPT !.cs[currentIndex] = Reducer(@, action)])

UseState(st, name, initialValue) ==
  LET currentIndex == st.hookIndex
      seeded == IF st.cs[currentIndex] = Undefined
                THEN [st.cs EXCEPT ![currentIndex] = initialValue]
                ELSE st.cs
      state == seeded[currentIndex]
  IN  [st EXCEPT !.cs = seeded,
                 !.hookIndex = currentIndex + 1,
                 !.rendered[name] = state,
                 !.readSlot[name] = currentIndex,
                 !.owner[currentIndex] = IF @ = "none" THEN name ELSE @]

\* useReducer(reducer, initial): the reducer's state lives in a hook slot
\* like any other cell, part_000:13
UseReducer(st, name, initial) == UseState(st, name, initial)

----------------------------------------------------------------------------
(* useEffect, state.md:357-382 *)

\* The effect bodies of the instance.  Every body logs that it ran; the body
\* of the effect without watch-list of the "loopy" component also calls
\* setB(b + 1) with the b of its own render, state.md:821-825.
\* The body of UserFetcher's effect (UserFetch.jsx:11-24) makes a controller,
\* calls setLoading(true) and setError(null) and starts the fetch.
NewRequest(id, userId) ==
  [id |-> id, userId |-> userId, aborted |-> FALSE, stage |-> "inflight",
   outcome |-> "none"]

\* The fetch body runs the reaction itself, before it returns.
Callback_SettlesInline(st, thunk) ==
  LET i == thunk.idx
      ran == [st EXCEPT !.log = Append(@, <<"body", i, thunk.k>>),
                        !.runs[i] = @ + 1,
                        !.ranInPass = @ \cup {i}]
  IN  IF thunk.cb.mutates
      THEN SetState([ran EXCEPT !.effMut = TRUE], thunk.cb.slot,
                    Lit(thunk.cb.cap + 1))
      ELSE IF thunk.cb.fetch
      THEN LET s1 == SetState([ran EXCEPT !.effMut = TRUE], thunk.cb.slot,
                              Lit(JsTrue))
               s2 == SetState(s1, thunk.cb.slot2, Lit(Null))
               s3 == SetState(s2, st.readSlot["user"],
                              Lit(UserData(thunk.cb.cap)))
           IN  [s3 EXCEPT !.req = @ \cup
                  {[NewRequest(thunk.k, thunk.cb.cap) EXCEPT
                      !.stage = "settled", !.outcome = "ok"]}]
      ELSE ran

Callback(st, thunk) ==
  LET i == thunk.idx
      ran == [st EXCEPT !.log = Append(@, <<"body", i, thunk.k>>),
                        !.runs[i] = @ + 1,
                        !.ranInPass = @ \cup {i}]
  IN  IF thunk.cb.mutates
      THEN SetState([ran EXCEPT !.effMut = TRUE], thunk.cb.slot,
                    Lit(thunk.cb.cap + 1))
      ELSE IF thunk.cb.fetch
      THEN LET s1 == SetState([ran EXCEPT !.effMut = TRUE], thunk.cb.slot,
                              Lit(JsTrue))
               s2 == SetState(s1, thunk.cb.slot2, Lit(Null))
           IN  [s2 EXCEPT !.req = @ \cup {NewRequest(thunk.k, thunk.cb.cap)}]
      ELSE ran

\* What the body returns: a cleanup function, named by the activation whose
\* closure it is, or nothing (0).
Returned(thunk) == IF thunk.cb.ret THEN thunk.k ELSE 0

\* The cleanup UserFetcher's effect returns: () => controller.abort(),
\* UserFetch.jsx:26.  The cleanup of another effect touches no request.
CleanupFn(reqs, id) ==
  {IF r.id = id THEN [r EXCEPT !.aborted = TRUE] ELSE r : r \in reqs}

\* The returned cleanup is never stored.
RunThunk_ForgetsCleanup(st, thunk) ==
  LET ran == Callback(st, thunk)
      cleanup == Returned(thunk)
  IN  [ran EXCEPT !.out[thunk.idx] = cleanup]

\* The thunk useEffect hands to scheduleEffect, state.md:367-374
RunThunk(st, thunk) ==
  LET ran == Callback(st, thunk)
      cleanup == Returned(thunk)
      kept == IF cleanup # 0
              THEN [ran EXCEPT !.ec[thunk.idx].cleanup = cleanup]
              ELSE ran
  IN  [kept EXCEPT !.out[thunk.idx] = cleanup]

\* Variants of useEffect with one slip each.
\* The watch-list is recorded at the first registration only.
UseEffect_KeepOldDeps(st, callback, dependencies) ==
  LET idx == GetCurrentEffectIndex(st)
      previousDependencies == st.ec[idx].deps
      depsChanged == \/ ~previousDependencies.given
                     \/ ~AreArraysEqual(dependencies, previousDependencies)
      thunk == [idx |-> idx, cb |-> callback, k |-> st.renderNo]
      seen == ReportArity(st, idx, dependencies, previousDependencies)
      scheduled == IF depsChanged THEN ScheduleEffect(seen, thunk) ELSE seen
  IN  [scheduled EXCEPT
         !.ec[idx] = [deps |-> IF previousDependencies.given
                               THEN previousDependencies ELSE dependencies,
                      cleanup |-> st.ec[idx].cleanup],
         !.effectIndex = idx + 1]

\* An empty previous watch-list is taken for a missing one.
UseEffect_EmptyIsFalsy(st, callback, dependencies) ==
  LET idx == GetCurrentEffectIndex(st)
      previousDependencies == st.ec[idx].deps
      depsChanged == \/ ~previousDependencies.given
                     \/ Len(previousDependencies.list) = 0
                     \/ ~AreArraysEqual(dependencies, previousDependencies)
      thunk == [idx |-> idx, cb |-> callback, k |-> st.renderNo]
      seen == ReportArity(st, idx, dependencies, previousDependencies)
      scheduled == IF depsChanged THEN ScheduleEffect(seen, thunk) ELSE seen
  IN  [scheduled EXCEPT
         !.ec[idx] = [deps |-> dependencies, cleanup |-> st.ec[idx].cleanup],
         !.effectIndex = idx + 1]

\* The stored cleanup is not carried over to the new entry.
UseEffect_DropCleanup(st, callback, dependencies) ==
  LET idx == GetCurrentEffectIndex(st)
      previousDependencies == st.ec[idx].deps
      depsChanged == \/ ~previousDependencies.given
                     \/ ~AreArraysEqual(dependencies, previousDependencies)
      thunk == [idx |-> idx, cb |-> callback, k |-> st.renderNo]
      seen == ReportArity(st, idx, dependencies, previousDependencies)
      scheduled == IF depsChanged THEN ScheduleEffect(seen, thunk) ELSE seen
  IN  [scheduled EXCEPT
         !.ec[idx] = [deps |-> dependencies, cleanup |-> 0],
         !.effectIndex = idx + 1]

\* A missing watch-list triggers the effect at the first activation only.
UseEffect_NoDepsOnce(st, callback, dependencies) ==
  LET idx == GetCurrentEffectIndex(st)
      previousDependencies == st.ec[idx].deps
      depsChanged == IF dependencies.given
                     THEN \/ ~previousDependencies.given
                          \/ ~AreArraysEqual(dependencies,
                                             previousDependencies)
                     ELSE st.renderNo = 1
      thunk == [idx |-> idx, cb |-> callback, k |-> st.renderNo]
      seen == ReportArity(st, idx, dependencies, previousDependencies)
      scheduled == IF depsChanged THEN ScheduleEffect(seen, thunk) ELSE seen
  IN  [scheduled EXCEPT
         !.ec[idx] = [deps |-> dependencies, cleanup |-> st.ec[idx].cleanup],
         !.effectIndex = idx + 1]

\* The callback is run at once, during the render, instead of scheduled.
UseEffect_RunsInline(st, callback, dependencies) ==
  LET idx == GetCurrentEffectIndex(st)
      previousDependencies == st.ec[idx].deps
      depsChanged == \/ ~previousDependencies.given
                     \/ ~AreArraysEqual(dependencies, previousDependencies)
      thunk == [idx |-> idx, cb |-> callback, k |-> st.renderNo]
      seen == ReportArity(st, idx, dependencies, previousDependencies)
      scheduled == IF depsChanged THEN RunThunk(seen, thunk) ELSE seen
  IN  [scheduled EXCEPT
         !.ec[idx] = [deps |-> dependencies, cleanup |-> st.ec[idx].cleanup],
         !.effectIndex = idx + 1]

\* An omitted watch-list defaults to the empty one.
UseEffect_NoDepsAsEmpty(st, callback, dependencies) ==
  LET idx == GetCurrentEffectIndex(st)
      given == IF dependencies.given THEN dependencies ELSE Deps(<<>>)
      previousDependencies == st.ec[idx].deps
      depsChanged == \/ ~previousDependencies.given
                     \/ ~AreArraysEqual(given, previousDependencies)
      thunk == [idx |-> idx, cb |-> callback, k |-> st.renderNo]
      seen == ReportArity(st, idx, dependencies, previousDependencies)
      scheduled == IF depsChanged THEN ScheduleEffect(seen, thunk) ELSE seen
  IN  [scheduled EXCEPT
         !.ec[idx] = [deps |-> given, cleanup |-> st.ec[idx].cleanup],
         !.effectIndex = idx + 1]

\* Watch-lists of different lengths are not compared.
UseEffect_SameLengthOnly(st, callback, dependencies) ==
  LET idx == GetCurrentEffectIndex(st)
      previousDependencies == st.ec[idx].deps
      depsChanged == \/ ~previousDependencies.given
                     \/ /\ Len(dependencies.list)
                             = Len(previousDependencies.list)
                        /\ ~AreArraysEqual(dependencies, previousDependencies)
      thunk == [idx |-> idx, cb |-> callback, k |-> st.renderNo]
      seen == ReportArity(st, idx, dependencies, previousDependencies)
      scheduled == IF depsChanged THEN ScheduleEffect(seen, thunk) ELSE seen
  IN  [scheduled EXCEPT
         !.ec[idx] = [deps |-> dependencies, cleanup |-> st.ec[idx].cleanup],
         !.effectIndex = idx + 1]

UseEffect(st, callback, dependencies) ==
  LET idx == GetCurrentEffectIndex(st)
      previousDependencies == st.ec[idx].deps
      depsChanged == \/ ~previousDependencies.given
                     \/ ~AreArraysEqual(dependencies, previousDependencies)
      thunk == [idx |-> idx, cb |-> callback, k |-> st.renderNo]
      seen == ReportArity(st, idx, dependencies, previousDependencies)
      scheduled == IF depsChanged THEN ScheduleEffect(seen, thunk) ELSE seen
  IN  [scheduled EXCEPT
         !.ec[idx] = [deps |-> dependencies, cleanup |-> st.ec[idx].cleanup],
         !.effectIndex = idx + 1]

----------------------------------------------------------------------------
(* The instance body: the registration calls of one activation *)

\* One registration call after another: F applied to the state v has
\* come to.
Then(v, F(_)) == CHOOSE r \in {F(s) : s \in {v}} : TRUE

Body(ret, mutates, cap, slot) ==
  [ret |-> ret, mutates |-> mutates, cap |-> cap, slot |-> slot,
   fetch |-> FALSE, slot2 |-> 0]

\* The body of UserFetcher's effect, a closure over userId and the setters
FetchBody(userId, loadingSlot, errorSlot) ==
  [ret |-> TRUE, mutates |-> FALSE, cap |-> userId, slot |-> loadingSlot,
   fetch |-> TRUE, slot2 |-> errorSlot]

\* Variant of UserFetcher with one slip: loading starts as false.
UserFetcher_StartsIdle(st) ==
  LET UserId(s) == UseState(s, "userId", 1)
      User(s) == UseState(s, "user", Null)
      Loading(s) == UseState(s, "loading", JsFalse)
      Error(s) == UseState(s, "error", Null)
      Effect(s) ==
        UseEffect(s, FetchBody(s.rendered["userId"], s.readSlot["loading"],
                               s.readSlot["error"]),
                  Deps(<<s.rendered["userId"]>>))
  IN  Then(Then(Then(Then(Then(st, UserId), User), Loading), Error), Effect)

\* UserFetcher, UserFetch.jsx:4-27
UserFetcher(st) ==
  LET UserId(s) == UseState(s, "userId", 1)
      User(s) == UseState(s, "user", Null)
      Loading(s) == UseState(s, "loading", JsTrue)
      Error(s) == UseState(s, "error", Null)
      Effect(s) ==
        UseEffect(s, FetchBody(s.rendered["userId"], s.readSlot["loading"],
                               s.readSlot["error"]),
                  Deps(<<s.rendered["userId"]>>))
  IN  Then(Then(Then(Then(Then(st, UserId), User), Loading), Error), Effect)

\* Counter, part_000:35-53: const [count, setCount] = useState(0)
Counter(st) == UseState(st, "a", 0)

\* Component of state.md:776-787: a count and an effect with watch-list []
\* that sets up the interval and returns its cleanup
Interval(st) ==
  LET Count(s) == UseState(s, "a", 0)
      Effect(s) == UseEffect(s, Body(TRUE, FALSE, 0, 0), Deps(<<>>))
  IN  Then(Then(st, Count), Effect)

\* A component whose cell is registered with an initializer thunk:
\* useState(() => LazyValue)
Lazy(st) == UseState(st, "a", ThunkOf(LazyValue))

\* The watch-list of effect 0: [a], but the "arity" component passes [a, b]
\* while its prop is false, a list of another length.
WatchList0(cfg, shown, a, b) ==
  IF cfg = "arity" /\ ~shown THEN <<a, b>> ELSE <<a>>

\* cfg "bad" is BadComponent (state.md:232-248): its first useState call is
\* made only while the prop shouldShowCounter is true.
InstanceBody(st, cfg, shown, ret0) ==
  IF cfg = "counter" THEN Counter(st) ELSE
  IF cfg = "fetch" THEN UserFetcher(st) ELSE
  IF cfg = "interval" THEN Interval(st) ELSE
  IF cfg = "lazy" THEN Lazy(st) ELSE
  LET CellA(s) == IF cfg = "bad" /\ ~shown THEN s ELSE UseState(s, "a", 0)
      CellB(s) == UseState(s, "b", 0)
      CellR(s) == UseReducer(s, "r", 0)
      CellP(s) == UseState(s, "p", 0)
      Effect0(s) ==
        UseEffect(s, Body(ret0, FALSE, 0, 0),
                  Deps(WatchList0(cfg, shown, s.rendered["a"],
                                  s.rendered["b"])))
      Effect1(s) == UseEffect(s, Body(TRUE, FALSE, 0, 0), Deps(<<>>))
      Effect2(s) ==
        UseEffect(s, Body(FALSE, cfg = "loopy", s.rendered["b"],
                          s.readSlot["b"]), NoDeps)
  IN  Then(Then(Then(Then(Then(Then(Then(st, CellA), CellB), CellR), CellP),
                     Effect0), Effect1), Effect2)

----------------------------------------------------------------------------
(* Event handlers of the examples, as the calls they make in order *)

Op(kind, cell, val) == [kind |-> kind, cell |-> cell, val |-> val]

Handlers ==
  [ Stale3    |-> << Op("litInc", "a", 0), Op("litInc", "a", 0),
                     Op("litInc", "a", 0) >>,          \* state.md:276-281
    Fixed3    |-> << Op("updInc", "a", 0), Op("updInc", "a", 0),
                     Op("updInc", "a", 0) >>,          \* part_000:39-43
    Inc       |-> << Op("updInc", "a", 0) >>,          \* part_000:48
    Reset     |-> << Op("lit", "a", 0) >>,             \* part_000:50
    ResetInc  |-> << Op("lit", "a", 0), Op("updInc", "a", 0) >>,
                                                       \* part_000:48-50
    Submit    |-> << Op("lit", "a", 1), Op("lit", "b", 1) >>,
                                                       \* state.md:326-333
    Other     |-> << Op("updInc", "b", 0) >>,
    Dispatch1 |-> << Op("dispatch", "r", 0) >>,
    Dispatch3 |-> << Op("dispatch", "r", 0), Op("dispatch", "r", 0),
                     Op("dispatch", "r", 0) >>,        \* state.md:1066-1070
    PropFlip  |-> << Op("prop", "a", 0) >>,            \* state.md:232-246
    HookInHandler |-> << Op("hook", "x", 0) >>,        \* state.md:614-620
    IntervalLog |-> << Op("updLog", "a", 0) >>,        \* state.md:781-783
    Prev      |-> << Op("updPrev", "userId", 0) >>,    \* UserFetch.jsx:34
    Next      |-> << Op("updInc", "userId", 0) >> ]    \* UserFetch.jsx:36

HandlerNames == DOMAIN Handlers

\* The buttons of Counter, part_000:48-50
CounterHandlers == {"Inc", "Fixed3", "Reset"}

\* The buttons of UserFetcher, UserFetch.jsx:34-36
FetchHandlers == {"Prev", "Next"}

\* The callback of the interval, state.md:781-783
IntervalHandlers == {"IntervalLog"}

\* The handlers a hosted component offers.
ComponentHandlers(cfg) ==
  LET shared == HandlerNames \ (FetchHandlers \cup IntervalHandlers)
  IN  CASE cfg = "counter" -> CounterHandlers
        [] cfg = "fetch" -> FetchHandlers
        [] cfg = "interval" -> IntervalHandlers
        [] cfg = "lazy" -> {"Reset"}
        [] cfg = "good" -> shared \ {"PropFlip"}
        [] cfg \in {"bad", "arity"} -> shared \ {"HookInHandler"}
        [] OTHER -> shared \ {"PropFlip", "HookInHandler"}

\* UserFetcher renders its buttons only when it is neither loading nor
\* showing an error, UserFetch.jsx:29-37.
ButtonsShown(cfg, view) ==
  cfg = "fetch" => (view["loading"] = JsFalse /\ view["error"] = Null)

\* One call of a handler.  The handler is a closure of the last activation:
\* it reads that activation's values and its setters write that activation's
\* slots.
Arg(st, op) ==
  CASE op.kind = "litInc" -> Lit(st.rendered[op.cell] + 1)
    [] op.kind = "updInc" -> Fn("inc")
    [] op.kind = "updPrev" -> Fn("prev")
    [] op.kind = "updLog" -> Fn("log")
    [] op.kind = "lit" -> Lit(op.val)

SetterKinds == {"litInc", "updInc", "updPrev", "updLog", "lit"}

Call(st, op) ==
  LET slot == st.readSlot[op.cell]
  IN  CASE op.kind \in SetterKinds -> SetState(st, slot, Arg(st, op))
        [] op.kind = "dispatch" ->
             SetState(Dispatch(st, slot, "null"), st.readSlot["p"],
                      Fn("reduce"))
        [] op.kind = "hook" -> UseState(st, op.cell, op.val)
        [] OTHER -> ScheduleRender(st)

----------------------------------------------------------------------------
(* Initial state: the instance is constructed, not yet activated *)

InitState(cfgs) ==
  /\ config \in cfgs
  /\ componentStates = [s \in Slots |-> Undefined]
  /\ hookIndex = 0
  /\ effectCallbacks = [i \in EffectIds |-> [deps |-> NoDeps, cleanup |-> 0]]
  /\ effectIndex = 0
  /\ effectQueue = <<>>
  /\ sched = "Idle"
  /\ newBatch = FALSE
  /\ pc = "none"
  /\ mounted = "no"
  /\ err = "None"
  /\ show = TRUE
  /\ hookCount = 0
  /\ rendered = [n \in AllNames |-> Undefined]
  /\ readSlot = [n \in AllNames |-> 0]
  /\ task = <<>>
  /\ tasksDone = 0
  /\ renderNo = 0
  /\ actsInTask = 0
  /\ diagnostics = {}
  /\ requests = {}
  /\ arity = <<0, 0>>
  /\ owner = [s \in Slots |-> "none"]
  /\ prevRendered = [n \in AllNames |-> Undefined]
  /\ ranInPass = {}
  /\ runs = [i \in EffectIds |-> 0]
  /\ out = [i \in EffectIds |-> 0]
  /\ log = <<>>
  /\ handler = "none"
  /\ startA = Undefined
  /\ muts = <<>>
  /\ clicked = 0
  /\ nMut = 0
  /\ nFlush = 0
  /\ nPass = 0
  /\ effMut = FALSE
  /\ todos = <<>>
  /\ text = ""
  /\ clock = 0
  /\ prevTodos = <<>>
  /\ lastAction = [type |-> "none", text |-> "", id |-> 0]

Init == InitState({"good", "bad", "loopy", "arity"})

----------------------------------------------------------------------------
(* Host entry points *)

\* activate(instance) for the first time: no batch is involved, the
\* scheduler stays Idle unless an effect body of the pass calls mutate
Mount ==
  /\ mounted = "no"
  /\ mounted' = "yes"
  /\ pc' = "activate"
  /\ UNCHANGED <<sched, todoVars, requests, clicked, arity, diagnostics, muts,
                 componentStates, hookIndex, effectCallbacks, effectIndex,
                 effectQueue, newBatch, err, config, show, hookCount, rendered,
                 readSlot, task, tasksDone, renderNo, actsInTask, owner,
                 prevRendered, ranInPass, runs, out, log, handler, startA,
                 nMut, nFlush, nPass, effMut>>

\* The host starts an event handler (one synchronous task).
StartTask(h) ==
  /\ mounted = "yes"
  /\ err = "None"
  /\ sched = "Idle"
  /\ ~newBatch
  /\ pc = "none"
  /\ task = <<>>
  /\ tasksDone < MaxTasks
  /\ h \in ComponentHandlers(config)
  /\ ButtonsShown(config, rendered)
  /\ task' = Handlers[h]
  /\ tasksDone' = tasksDone + 1
  /\ handler' = h
  /\ startA' = componentStates[readSlot["a"]]
  /\ muts' = <<>>
  /\ clicked' = IF config # "counter" THEN clicked
                ELSE CASE h = "Inc" -> clicked + 1
                       [] h = "Fixed3" -> clicked + 3
                       [] h = "Reset" -> 0
  /\ actsInTask' = 0
  /\ nMut' = 0
  /\ nFlush' = 0
  /\ nPass' = 0
  /\ effMut' = FALSE
  /\ log' = <<>>
  /\ UNCHANGED <<todoVars, requests, arity, diagnostics, componentStates,
                 hookIndex, effectCallbacks, effectIndex, effectQueue, sched,
                 newBatch, pc, mounted, err, config, show, hookCount, rendered,
                 readSlot, renderNo, owner, prevRendered, ranInPass, runs,
                 out>>

\* The running handler makes its next call.
TaskStep ==
  /\ task # <<>>
  /\ Unpack(Call(Pack, Head(task)))
  /\ task' = Tail(task)
  /\ show' = IF Head(task).kind = "prop" THEN ~show ELSE show
  /\ muts' = IF Head(task).kind \in SetterKinds /\ Head(task).cell = "a"
             THEN Append(muts, Arg(Pack, Head(task)))
             ELSE muts
  /\ nMut' = nMut + (CASE Head(task).kind \in {"prop", "hook"} -> 0
                       [] Head(task).kind = "dispatch" -> 2
                       [] OTHER -> 1)
  /\ UNCHANGED <<todoVars, clicked, arity, pc, mounted, err, config, hookCount,
                 tasksDone, actsInTask, prevRendered, handler, startA, nFlush,
                 nPass>>

\* teardown(instance): every stored cleanup is invoked, in registration
\* order.  The host's call is a task of its own: it does not come between a
\* settled promise and the reactions chained to it.
RECURSIVE CleanupEvents(_, _)
CleanupEvents(ec, i) ==
  IF i >= NEffects THEN <<>>
  ELSE (IF ec[i].cleanup # 0 THEN << <<"cleanup", i, ec[i].cleanup>> >>
        ELSE <<>>) \o CleanupEvents(ec, i + 1)

RECURSIVE CleanupAll(_, _, _)
CleanupAll(reqs, ec, i) ==
  IF i >= NEffects THEN reqs
  ELSE CleanupAll(IF ec[i].cleanup # 0 THEN CleanupFn(reqs, ec[i].cleanup)
                  ELSE reqs, ec, i + 1)

Teardown ==
  /\ mounted = "yes"
  /\ sched = "Idle"
  /\ ~newBatch
  /\ pc = "none"
  /\ task = <<>>
  /\ \A r \in requests : r.stage # "settled"
  /\ mounted' = "torndown"
  /\ log' = CleanupEvents(effectCallbacks, 0)
  /\ requests' = CleanupAll(requests, effectCallbacks, 0)
  /\ out' = [i \in EffectIds |->
               IF out[i] = effectCallbacks[i].cleanup THEN 0 ELSE out[i]]
  /\ effectCallbacks' = [i \in EffectIds |-> [deps |-> NoDeps, cleanup |-> 0]]
  /\ componentStates' = [s \in Slots |-> Undefined]
  /\ UNCHANGED <<todoVars, clicked, arity, diagnostics, muts, hookIndex,
                 effectIndex, effectQueue, sched, newBatch, pc, err, config,
                 show, hookCount, rendered, readSlot, task, tasksDone,
                 renderNo, actsInTask, owner, prevRendered, ranInPass, runs,
                 handler, startA, nMut, nFlush, nPass, effMut>>

----------------------------------------------------------------------------
(* The scheduler *)

\* The flush of an open batch starts once the synchronous task is over.
Flush ==
  /\ sched = "BatchOpen"
  /\ task = <<>>
  /\ pc = "none"
  /\ sched' = "Flushing"
  /\ pc' = "activate"
  /\ nFlush' = nFlush + 1
  /\ UNCHANGED <<todoVars, requests, clicked, arity, diagnostics, muts,
                 componentStates, hookIndex, effectCallbacks, effectIndex,
                 effectQueue, newBatch, mounted, err, config, show, hookCount,
                 rendered, readSlot, task, tasksDone, renderNo, actsInTask,
                 owner, prevRendered, ranInPass, runs, out, log, handler,
                 startA, nMut, nPass, effMut>>

\* A fatal condition aborts the flush cycle: nothing scheduled is run.
Abort(st, e) ==
  /\ Unpack([st EXCEPT !.q = <<>>, !.sched = "Idle", !.newBatch = FALSE])
  /\ err' = e
  /\ pc' = "none"

\* One activation: the instance body runs and re-executes its registration
\* calls by position.
Activate(ret0) ==
  /\ pc = "activate"
  /\ IF actsInTask >= RenderCeiling
     THEN /\ Abort(Pack, "RenderLoopExceeded")
          /\ UNCHANGED <<hookCount, prevRendered, actsInTask, nPass, arity>>
     ELSE LET st0 == [Pack EXCEPT !.hookIndex = 0, !.effectIndex = 0,
                                  !.q = <<>>, !.renderNo = @ + 1,
                                  !.ranInPass = {}]
              st1 == InstanceBody(st0, config, show, ret0)
              st2 == [st1 EXCEPT
                        !.log = Append(@, <<"render", 0, st1.renderNo>>)]
          IN  /\ actsInTask' = actsInTask + 1
              /\ prevRendered' = rendered
              /\ arity' = <<arity[2], Len(st2.ec[0].deps.list)>>
              /\ IF renderNo >= 1 /\ st2.hookIndex # hookCount
                 THEN /\ Abort(st2, "RegistrationOrderViolation")
                      /\ UNCHANGED <<hookCount, nPass>>
                 ELSE /\ Unpack(st2)
                      /\ err' = err
                      /\ pc' = "effects"
                      /\ hookCount' = st2.hookIndex
                      /\ nPass' = nPass + 1
  /\ UNCHANGED <<todoVars, clicked, muts, mounted, config, show, task,
                 tasksDone, handler, startA, nMut, nFlush>>

\* The effect pass runs the next scheduled thunk; the cleanup its
\* registration holds is invoked first, state.md:384-387.
InvokeCleanup(st, i) ==
  IF st.ec[i].cleanup = 0 THEN st
  ELSE [st EXCEPT !.log = Append(@, <<"cleanup", i, st.ec[i].cleanup>>),
                  !.out[i] = IF @ = st.ec[i].cleanup THEN 0 ELSE @,
                  !.req = CleanupFn(@, st.ec[i].cleanup)]

RunEffect ==
  /\ pc = "effects"
  /\ effectQueue # <<>>
  /\ LET thunk == Head(effectQueue)
         st0 == [Pack EXCEPT !.q = Tail(@)]
     IN  Unpack(RunThunk(InvokeCleanup(st0, thunk.idx), thunk))
  /\ UNCHANGED <<todoVars, clicked, arity, muts, pc, mounted, err, config,
                 show, hookCount, task, tasksDone, actsInTask, prevRendered,
                 handler, startA, nMut, nFlush, nPass>>

\* The pass is over: a flush leaves the scheduler Idle.
FinishFlush ==
  /\ pc = "effects"
  /\ effectQueue = <<>>
  /\ pc' = "none"
  /\ sched' = IF sched = "Flushing" THEN "Idle" ELSE sched
  /\ UNCHANGED <<newBatch, todoVars, requests, clicked, arity, diagnostics,
                 muts, componentStates, hookIndex, effectCallbacks,
                 effectIndex, effectQueue, mounted, err, config, show,
                 hookCount, rendered, readSlot, task, tasksDone, renderNo,
                 actsInTask, owner, prevRendered, ranInPass, runs, out, log,
                 handler, startA, nMut, nFlush, nPass, effMut>>

\* The batch an effect body opened during the flush opens now.
ReopenBatch ==
  /\ sched = "Idle"
  /\ pc = "none"
  /\ newBatch
  /\ sched' = "BatchOpen"
  /\ newBatch' = FALSE
  /\ UNCHANGED <<componentStates, hookIndex, effectCallbacks, effectIndex,
                 effectQueue, pc, mounted, err, config, show, hookCount,
                 rendered, readSlot, task, tasksDone, renderNo, actsInTask,
                 diagnostics, requests, arity, owner, prevRendered, ranInPass,
                 runs, out, log, handler, startA, muts, clicked, nMut, nFlush,
                 nPass, effMut, todoVars>>

Next ==
  \/ Mount
  \/ \E h \in HandlerNames : StartTask(h)
  \/ TaskStep
  \/ Flush
  \/ \E ret0 \in BOOLEAN : Activate(ret0)
  \/ RunEffect
  \/ FinishFlush
  \/ ReopenBatch
  \/ Teardown

Spec == Init /\ [][Next]_vars

\* The host and the scheduler under the scheduling the runtime relies on: a
\* handler runs to its end, a requested flush is made, and a flush goes
\* through its activation and its effect pass.
SchedHandlers == {"Inc", "Reset", "Submit", "PropFlip"}

NextSched ==
  \/ Mount
  \/ \E h \in SchedHandlers : StartTask(h)
  \/ TaskStep
  \/ Flush
  \/ \E ret0 \in BOOLEAN : Activate(ret0)
  \/ RunEffect
  \/ FinishFlush
  \/ ReopenBatch
  \/ Teardown

FairSched ==
  /\ Init
  /\ [][NextSched]_vars
  /\ WF_vars(TaskStep)
  /\ WF_vars(Flush)
  /\ WF_vars(\E ret0 \in BOOLEAN : Activate(ret0))
  /\ WF_vars(RunEffect)
  /\ WF_vars(FinishFlush)
  /\ WF_vars(ReopenBatch)

----------------------------------------------------------------------------
(* The promise chain of a fetch, UserFetch.jsx:15-24.  Each reaction runs   *)
(* as a task of its own, once the instance is at rest; it also runs when    *)
(* the instance was torn down meanwhile.                                    *)

\* How a request that is still in flight can end: an aborted one rejects
\* with AbortError; another one yields a response that is ok, one that is
\* not (UserFetch.jsx:17), or a network failure.
Outcomes(r) ==
  IF r.aborted THEN {"abort"} ELSE {"ok", "httpError", "netError"}

\* Variant of the reactions with one slip: the catch handler reports nothing.
Reaction_SwallowsError(r, o) ==
  CASE o = "ok" -> << Op("lit", "user", UserData(r.userId)) >>
    [] OTHER -> <<>>

\* .then(setUser) or .catch(err => ...), UserFetch.jsx:20-23
Reaction(r, o) ==
  CASE o = "ok" -> << Op("lit", "user", UserData(r.userId)) >>
    [] o = "abort" -> <<>>
    [] OTHER -> << Op("lit", "error", ErrorMessage) >>

StartReaction(calls, name) ==
  /\ mounted \in {"yes", "torndown"}
  /\ err = "None"
  /\ sched = "Idle"
  /\ ~newBatch
  /\ pc = "none"
  /\ task = <<>>
  /\ task' = calls
  /\ handler' = name
  /\ startA' = componentStates[readSlot["a"]]
  /\ muts' = <<>>
  /\ actsInTask' = 0
  /\ nMut' = 0
  /\ nFlush' = 0
  /\ nPass' = 0
  /\ effMut' = FALSE
  /\ log' = <<>>
  /\ UNCHANGED <<todoVars, componentStates, hookIndex, effectCallbacks,
                 effectIndex, effectQueue, sched, newBatch, pc, mounted, err,
                 config, show, hookCount, rendered, readSlot, renderNo, owner,
                 prevRendered, ranInPass, runs, out, tasksDone, diagnostics,
                 arity, clicked>>

Settle(r, o) ==
  /\ r \in requests
  /\ r.stage = "inflight"
  /\ o \in Outcomes(r)
  /\ StartReaction(Reaction(r, o), "Settle")
  /\ requests' = (requests \ {r})
                    \cup {[r EXCEPT !.stage = "settled", !.outcome = o]}

\* .finally(() => setLoading(false)), UserFetch.jsx:24
Finally(r) ==
  /\ r \in requests
  /\ r.stage = "settled"
  /\ StartReaction(<< Op("lit", "loading", JsFalse) >>, "Finally")
  /\ requests' = (requests \ {r}) \cup {[r EXCEPT !.stage = "done"]}

AllOutcomes == {"ok", "httpError", "netError", "abort"}

InitFetch == InitState({"fetch"})

NextFetch ==
  \/ Mount
  \/ \E h \in FetchHandlers : StartTask(h)
  \/ TaskStep
  \/ Flush
  \/ \E ret0 \in BOOLEAN : Activate(ret0)
  \/ RunEffect
  \/ FinishFlush
  \/ ReopenBatch
  \/ Teardown
  \/ \E r \in requests : \E o \in AllOutcomes : Settle(r, o)
  \/ \E r \in requests : Finally(r)

SpecFetch == InitFetch /\ [][NextFetch]_vars

\* UserFetcher under the scheduling the runtime relies on: a handler or a
\* reaction runs to its end, a requested flush is made and goes through its
\* activation and its effect pass, and the reaction chained to a settled
\* promise runs.  When the server answers, and whether it does, is open.
FairFetch ==
  /\ InitFetch
  /\ [][NextFetch]_vars
  /\ WF_vars(TaskStep)
  /\ WF_vars(Flush)
  /\ WF_vars(\E ret0 \in BOOLEAN : Activate(ret0))
  /\ WF_vars(RunEffect)
  /\ WF_vars(FinishFlush)
  /\ WF_vars(ReopenBatch)
  /\ WF_vars(\E r \in requests : Finally(r))

----------------------------------------------------------------------------
(* TodoUseReducer, part_000:12-31: its handlers, each with the state the    *)
(* reducer and setText leave                                                *)

\* Time passes between two events, or does not.
Tick ==
  /\ clock < MaxClock
  /\ clock' = clock + 1
  /\ UNCHANGED <<todos, text, prevTodos, lastAction, runtimeVars>>

\* onChange={e => setText(e.target.value)}
TodoChange(v) ==
  /\ sched = "Idle"
  /\ v # text
  /\ text' = v
  /\ sched' = ScheduleRender(Pack).sched
  /\ handler' = "TodoChange"
  /\ UNCHANGED <<todos, clock, prevTodos, lastAction, todoFrame>>

\* Add: dispatch({ type: 'add', payload: text }); setText('')
TodoAdd ==
  /\ sched = "Idle"
  /\ Len(todos) < MaxTodos
  /\ todos' = TodoReducer(todos, AddAction(text), clock)
  /\ text' = ""
  /\ prevTodos' = todos
  /\ lastAction' = AddAction(text)
  /\ sched' = ScheduleRender(ScheduleRender(Pack)).sched
  /\ handler' = "TodoAdd"
  /\ UNCHANGED <<clock, todoFrame>>

\* Del of the item at position k: dispatch({ type: 'remove', payload: t.id })
TodoDel(k) ==
  /\ sched = "Idle"
  /\ todos' = TodoReducer(todos, RemoveAction(todos[k].id), clock)
  /\ prevTodos' = todos
  /\ lastAction' = RemoveAction(todos[k].id)
  /\ sched' = ScheduleRender(Pack).sched
  /\ handler' = "TodoDel"
  /\ UNCHANGED <<text, clock, todoFrame>>

\* dispatch of an action the reducer has no case for, such as the
\* TOGGLE_TODO of state.md:1751: dispatch(action) is
\* mutate(prev => reducer(prev, action))
TodoOther ==
  /\ sched = "Idle"
  /\ todos' = TodoReducer(todos, OtherAction, clock)
  /\ prevTodos' = todos
  /\ lastAction' = OtherAction
  /\ sched' = ScheduleRender(Pack).sched
  /\ handler' = "TodoOther"
  /\ UNCHANGED <<text, clock, todoFrame>>

\* The flush of the batch a handler opened: the component renders again.
TodoFlush ==
  /\ sched = "BatchOpen"
  /\ sched' = "Idle"
  /\ UNCHANGED <<handler, todoVars, todoFrame>>

InitTodo == InitState({"todo"})

NextTodo ==
  \/ Tick
  \/ \E v \in TodoTexts : TodoChange(v)
  \/ TodoAdd
  \/ \E k \in 1 .. Len(todos) : TodoDel(k)
  \/ TodoOther
  \/ TodoFlush

SpecTodo == InitTodo /\ [][NextTodo]_vars

\* The host of Counter: it has no effect to run.
InitCounter == InitState({"counter"})

NextCounter ==
  \/ Mount
  \/ \E h \in CounterHandlers : StartTask(h)
  \/ TaskStep
  \/ Flush
  \/ \E ret0 \in BOOLEAN : Activate(ret0)
  \/ FinishFlush
  \/ Teardown

SpecCounter == InitCounter /\ [][NextCounter]_vars

\* The host of the components with a single cell
InitCells == InitState({"counter", "interval", "lazy"})

NextCells ==
  \/ Mount
  \/ \E h \in CounterHandlers \cup IntervalHandlers : StartTask(h)
  \/ TaskStep
  \/ Flush
  \/ \E ret0 \in BOOLEAN : Activate(ret0)
  \/ RunEffect
  \/ FinishFlush
  \/ Teardown

SpecCells == InitCells /\ [][NextCells]_vars

----------------------------------------------------------------------------
(* Properties *)

SlotOf(n) == readSlot[n]

Value(n) == componentStates[SlotOf(n)]

\* The instance is at rest: no handler, flush or pass is in progress.
Quiet ==
  /\ mounted = "yes"
  /\ sched = "Idle"
  /\ ~newBatch
  /\ pc = "none"
  /\ task = <<>>

IsBody(e) == e[1] = "body"

IsRender(e) == e[1] = "render"

\* C1 -- Batching: the N >= 1 mutate calls of one synchronous task (to the
\* same cell or to distinct cells) are followed by exactly one flush, one
\* re-activation and one effect pass: never more than one while the task's
\* batch is being processed, and exactly one of each once the scheduler is
\* Idle again.
C1_Batching ==
  (mounted = "yes" /\ err = "None" /\ nMut >= 1 /\ ~effMut) =>
     /\ nFlush <= 1 /\ actsInTask <= 1 /\ nPass <= 1
     /\ sched = "BatchOpen" => (nFlush = 0 /\ actsInTask = 0 /\ nPass = 0)
     /\ sched = "Idle" => (nFlush = 1 /\ actsInTask = 1 /\ nPass = 1)

C1_Witness ==
  /\ Quiet /\ err = "None"
  /\ handler = "Submit" /\ nMut = 2
  /\ nFlush = 1 /\ actsInTask = 1 /\ nPass = 1

\* C2 -- Stale value versus functional update: from cell value 0, three
\* back-to-back mutate(current + 1) calls of one task leave the cell at 1
\* after the flush, three mutate(prev => prev + 1) calls leave it at 3.
C2_StaleVersusFunctional ==
  (Quiet /\ err = "None" /\ startA = 0 /\ nFlush = 1) =>
     /\ handler = "Stale3" => (Value("a") = 1 /\ rendered["a"] = 1)
     /\ handler = "Fixed3" => (Value("a") = 3 /\ rendered["a"] = 3)

C2_Witness ==
  /\ Quiet /\ err = "None" /\ startA = 0 /\ nFlush = 1
  /\ handler = "Fixed3" /\ Value("a") = 3 /\ tasksDone >= 2

\* C3 -- Watch-list gating: after an activation other than the first, the
\* body of the effect registered with watch-list [a], at that activation and
\* at the one before, has run in the pass if
\* and only if a differs from the value of the previous activation, whatever
\* happened to the other cells.
C3_WatchListGating ==
  (mounted = "yes" /\ err = "None" /\ pc = "none" /\ renderNo >= 2
     /\ arity = <<1, 1>>) =>
     ((0 \in ranInPass) <=> (rendered["a"] # prevRendered["a"]))

C3_Witness ==
  /\ Quiet /\ err = "None" /\ renderNo >= 2
  /\ rendered["a"] = prevRendered["a"]
  /\ rendered["b"] # prevRendered["b"]
  /\ 0 \notin ranInPass
  /\ runs[0] >= 2

\* C4 -- Empty watch-list: the body of the effect registered with an empty
\* watch-list runs exactly once in the life of the instance, in the pass of
\* the first activation, however many activations follow.
C4_EmptyWatchListOnce ==
  /\ runs[1] <= 1
  /\ (renderNo >= 1 /\ pc = "none") => runs[1] = 1

C4_Witness ==
  /\ Quiet /\ renderNo >= 4 /\ runs[1] = 1

\* C5 -- Cleanup ordering: when the body of an effect runs while the cleanup
\* its previous invocation returned is outstanding, that cleanup is invoked
\* immediately before the body, in the same pass, after the render of the
\* activation the body belongs to.
C5_CleanupBeforeBody ==
  [][ \A i \in EffectIds :
        (runs'[i] = runs[i] + 1 /\ out[i] # 0) =>
           \E j \in (Len(log) + 1) .. (Len(log') - 1) :
              /\ log'[j] = <<"cleanup", i, out[i]>>
              /\ log'[j + 1] = <<"body", i, renderNo'>>
              /\ out[i] < renderNo'
              /\ \E r \in 1 .. (j - 1) : log'[r] = <<"render", 0, renderNo'>>
    ]_vars

C5_Witness ==
  \E j \in 1 .. (Len(log) - 1) :
     /\ log[j][1] = "cleanup" /\ log[j][2] = 0
     /\ log[j + 1] = <<"body", 0, renderNo>>
     /\ mounted = "yes"

\* The cleanup events teardown owes: one per registration with an
\* outstanding cleanup, in ascending registration order.
RECURSIVE OutstandingEvents(_, _)
OutstandingEvents(o, i) ==
  IF i >= NEffects THEN <<>>
  ELSE (IF o[i] # 0 THEN << <<"cleanup", i, o[i]>> >> ELSE <<>>)
       \o OutstandingEvents(o, i + 1)

\* C6 -- Teardown: teardown invokes the outstanding cleanup of every
\* registration exactly once, in ascending registration order, and invokes
\* nothing for a registration without an outstanding cleanup.
C6_TeardownCleanups ==
  [][ (mounted = "yes" /\ mounted' = "torndown") =>
         log' = OutstandingEvents(out, 0) ]_vars

C8_OrderViolationDetected ==
  (config = "bad" /\ ~show /\ sched = "Idle" /\ pc = "none"
     /\ mounted = "yes") =>
     /\ err = "RegistrationOrderViolation"
     /\ \A n \in CellNames \ {"a"} : owner[readSlot[n]] = n

\* C9 -- Loop ceiling: the component whose effect without watch-list sets
\* state on every run never comes to rest without RenderLoopExceeded, no
\* external task ever sees more than RenderCeiling activations, and the
\* error is raised exactly when the ceiling is reached.
C9_LoopCeiling ==
  /\ actsInTask <= RenderCeiling
  /\ (config = "loopy" /\ mounted = "yes" /\ sched = "Idle" /\ ~newBatch
        /\ pc = "none") => err = "RenderLoopExceeded"
  /\ err = "RenderLoopExceeded" =>
        (actsInTask = RenderCeiling /\ config = "loopy")

C9_Witness ==
  /\ err = "RenderLoopExceeded" /\ actsInTask = RenderCeiling
  /\ runs[2] = RenderCeiling /\ effectQueue = <<>>

\* C10 -- Effect order: every effect body runs after the render of its
\* activation and before any later render, and the bodies of one pass run
\* in ascending registration order.
C10_EffectOrder ==
  \A j \in 1 .. Len(log) :
     IsBody(log[j]) =>
        /\ \E r \in 1 .. (j - 1) : log[r] = <<"render", 0, log[j][3]>>
        /\ \A r \in 1 .. (j - 1) : IsRender(log[r]) => log[r][3] <= log[j][3]
        /\ \A j2 \in (j + 1) .. Len(log) :
              (IsBody(log[j2]) /\ log[j2][3] = log[j][3])
                 => log[j2][2] > log[j][2]

C10_Witness ==
  /\ renderNo >= 2
  /\ \E j \in 1 .. Len(log) : \E j2 \in (j + 1) .. Len(log) :
        /\ log[j] = <<"body", 0, renderNo>>
        /\ log[j2] = <<"body", 2, renderNo>>

\* The left fold of a sequence of mutate arguments over a start value: a
\* literal replaces the value, the updater prev => prev + 1 maps it.
RECURSIVE FoldMutations(_, _)
FoldMutations(ms, v) ==
  IF ms = <<>> THEN v
  ELSE FoldMutations(Tail(ms), IF Head(ms).isFn THEN v + 1 ELSE Head(ms).val)

\* C11 -- Sequential composition within a batch: once a handler has made its
\* mutate calls on one cell, literals and updaters mixed, the cell holds the
\* left fold of those calls over the value it had before the batch, and that
\* is the value the flush shows; mutate(0) then mutate(p => p + 1) yields 1.
C11_SequentialComposition ==
  (mounted = "yes" /\ err = "None" /\ handler # "none" /\ task = <<>>) =>
     /\ Value("a") = FoldMutations(muts, startA)
     /\ Quiet => rendered["a"] = FoldMutations(muts, startA)
     /\ (handler = "ResetInc" /\ Quiet) => rendered["a"] = 1

C11_Witness ==
  /\ Quiet /\ err = "None" /\ handler = "ResetInc" /\ startA >= 2
  /\ Len(muts) = 2 /\ rendered["a"] = 1

\* A step in which a handler or an effect body calls mutate.
MutateStep ==
  \/ nMut' > nMut
  \/ effMut' /\ runs'[2] = runs[2] + 1

\* C12 -- Deferred mutation: a mutate call leaves the values the executing
\* activation or task reads for the cells as they are and requests a flush
\* (opens a batch, joins the open one, or opens the next one while a flush
\* runs); those values change in no step but the activation of a flush.
C12_DeferredMutation ==
  [][ /\ MutateStep =>
           /\ rendered' = rendered
           /\ readSlot' = readSlot
           /\ renderNo' = renderNo
           /\ sched' = "BatchOpen" \/ (sched' = "Flushing" /\ newBatch')
      /\ (\E n \in CellNames : rendered'[n] # rendered[n]) =>
           (pc = "activate" /\ renderNo' = renderNo + 1)
    ]_vars

C12_Witness ==
  /\ sched = "BatchOpen" /\ task # <<>> /\ nMut >= 1 /\ handler = "Fixed3"
  /\ Value("a") = startA + nMut
  /\ rendered["a"] = startA

\* C13 -- No-op mutation: a handler whose only mutate call gives the cell
\* the value it already holds (Reset at count 0), no other cell changing,
\* schedules no re-activation: no batch is opened, nothing is flushed and
\* the instance body is not run again.
C13_NoOpMutation ==
  (mounted = "yes" /\ err = "None" /\ handler = "Reset" /\ startA = 0
     /\ task = <<>>) =>
     (sched = "Idle" /\ nFlush = 0 /\ actsInTask = 0)

\* C14 -- Omitted watch-list: the body of the effect registered without a
\* watch-list has run once for every activation made so far whenever no pass
\* is in progress, whether or not any cell value changed; only an activation
\* aborted by a registration-order violation runs no effect.
C14_NoWatchListEveryActivation ==
  /\ runs[2] <= renderNo
  /\ (pc = "none" /\ err # "RegistrationOrderViolation") =>
        /\ runs[2] = renderNo
        /\ renderNo >= 1 => 2 \in ranInPass

C14_Witness ==
  /\ Quiet /\ err = "None" /\ renderNo >= 3 /\ runs[2] = renderNo
  /\ rendered = prevRendered /\ ranInPass = {2}

\* C15 -- Registration outside an activation: once a handler that called
\* registerCell while no activation was in progress is over,
\* RegisteredOutsideActivation has been raised, no slot beyond the cells of
\* the instance body holds a value and the registration position is where
\* the last activation left it.
C15_RegisteredOutsideActivation ==
  (mounted = "yes" /\ handler = "HookInHandler" /\ task = <<>>) =>
     /\ err = "RegisteredOutsideActivation"
     /\ \A s \in Slots : s >= NCells => componentStates[s] = Undefined
     /\ hookIndex = hookCount

\* C16 -- Watch-list arity change: after an activation that registered
\* effect 0 with a watch-list of another length than the activation before,
\* WatchListArityChanged has been reported for it, the body has run in the
\* pass although no watched value changed, the pass went on to the later
\* effects and nothing was aborted; nothing is reported for an activation
\* that kept the length.
C16_WatchListArityChanged ==
  (mounted = "yes" /\ pc = "none" /\ renderNo >= 2 /\ config = "arity") =>
     /\ arity[1] # arity[2] =>
           /\ <<"WatchListArityChanged", 0, renderNo>> \in diagnostics
           /\ 0 \in ranInPass
           /\ 2 \in ranInPass
           /\ err = "None"
     /\ arity[1] = arity[2] =>
           <<"WatchListArityChanged", 0, renderNo>> \notin diagnostics

C16_Witness ==
  /\ Quiet /\ err = "None" /\ config = "arity" /\ arity = <<1, 2>>
  /\ rendered["a"] = prevRendered["a"]
  /\ rendered["b"] = prevRendered["b"]
  /\ 0 \in ranInPass
  /\ diagnostics # {}

\* C17 -- Counter: whenever the instance is at rest, the displayed count
\* is the number of Increment clicks plus three times the number of +3
\* clicks since the last Reset (or the mount); a +3 click has raised the
\* displayed count by exactly 3, a Reset click has set it to 0.
C17_Counter ==
  (Quiet /\ err = "None") =>
     /\ rendered["a"] = clicked
     /\ Value("a") = clicked
     /\ handler = "Fixed3" => rendered["a"] = startA + 3
     /\ handler = "Inc" => rendered["a"] = startA + 1
     /\ handler = "Reset" => rendered["a"] = 0

C17_Witness ==
  /\ Quiet /\ err = "None" /\ config = "counter"
  /\ handler = "Fixed3" /\ startA = 1 /\ rendered["a"] = 4 /\ clicked = 4

\* C18 -- UserFetcher abort on supersede: at most one request that was not
\* aborted is in flight; as soon as a newer fetch exists the controller of
\* every older one has been aborted; after teardown every controller has
\* been aborted.
C18_AbortOnSupersede ==
  /\ Cardinality({r \in requests : r.stage = "inflight" /\ ~r.aborted}) <= 1
  /\ \A r1, r2 \in requests : r1.id < r2.id => r1.aborted
  /\ mounted = "torndown" => \A r \in requests : r.aborted

C18_Witness ==
  /\ mounted = "yes"
  /\ \E r1, r2 \in requests :
        /\ r1.id < r2.id /\ r1.aborted /\ r1.userId # r2.userId
        /\ r2.stage = "inflight" /\ ~r2.aborted

\* The number of items with id i among the first k items of a list.
Gone(list, i, k) == Cardinality({j \in 1 .. k : list[j].id = i})

\* C19 -- Todo list: after an 'add' with payload p the list is the previous
\* list, item for item, followed by exactly one new item with text p; after
\* a 'remove' with payload i no item with id i is left and every other item
\* of the previous list is there, unchanged and in the same relative order.
C19_TodoList ==
  /\ lastAction.type = "add" =>
        /\ Len(todos) = Len(prevTodos) + 1
        /\ todos[Len(todos)].text = lastAction.text
        /\ \A k \in 1 .. Len(prevTodos) : todos[k] = prevTodos[k]
  /\ lastAction.type = "remove" =>
        /\ Len(todos) = Len(prevTodos)
                          - Gone(prevTodos, lastAction.id, Len(prevTodos))
        /\ \A k \in 1 .. Len(todos) : todos[k].id # lastAction.id
        /\ \A k \in 1 .. Len(prevTodos) :
              prevTodos[k].id # lastAction.id =>
                 todos[k - Gone(prevTodos, lastAction.id, k)] = prevTodos[k]

C19_Witness ==
  /\ lastAction.type = "remove" /\ Len(prevTodos) = 3 /\ Len(todos) = 2
  /\ prevTodos[2].id = lastAction.id
  /\ todos[1] = prevTodos[1] /\ todos[2] = prevTodos[3]
  /\ todos[1].text # todos[2].text

\* C20 -- Scheduler states: the scheduler is always Idle, BatchOpen or
\* Flushing; its state changes only from Idle to BatchOpen, from BatchOpen
\* to Flushing (a flush) and from Flushing to Idle (the effects are done, or
\* a fatal error ended the flush); a mutate call made while Idle opens a
\* batch and one made while BatchOpen leaves the batch open; every opened
\* batch is eventually flushed and the scheduler then returns to Idle.
C20_SchedulerStates ==
  /\ [](sched \in {"Idle", "BatchOpen", "Flushing"})
  /\ [][
        /\ sched' # sched =>
              \/ sched = "Idle" /\ sched' = "BatchOpen"
              \/ sched = "BatchOpen" /\ sched' = "Flushing"
                   /\ nFlush' = nFlush + 1
              \/ sched = "Flushing" /\ sched' = "Idle"
                   /\ (effectQueue = <<>> \/ err' # "None")
        /\ (MutateStep /\ sched \in {"Idle", "BatchOpen"}) =>
              sched' = "BatchOpen"
     ]_vars
  /\ (sched = "BatchOpen") ~> (sched = "Flushing")
  /\ (sched = "Flushing") ~> (sched = "Idle")

C20_Witness ==
  /\ sched = "Idle" /\ ~newBatch /\ pc = "none" /\ mounted = "yes"
  /\ handler = "Submit" /\ nMut = 2 /\ nFlush = 1 /\ renderNo >= 3
  /\ effectQueue = <<>> /\ 2 \in ranInPass

\* A step of the effect pass whose body calls mutate.
EffectMutateStep ==
  /\ pc = "effects"
  /\ effectQueue # <<>>
  /\ Head(effectQueue).cb.mutates \/ Head(effectQueue).cb.fetch
  /\ runs' # runs

C22_NoInterleaving ==
  [][ /\ renderNo' # renderNo =>
           /\ pc = "activate" /\ task = <<>> /\ effectQueue = <<>>
           /\ renderNo' = renderNo + 1
           /\ runs' = runs
      /\ runs' # runs =>
           /\ pc = "effects" /\ pc' = "effects" /\ task = <<>>
           /\ renderNo' = renderNo
           /\ Head(effectQueue).k = renderNo
           /\ \E i \in EffectIds :
                 runs' = [runs EXCEPT ![i] = @ + 1]
      /\ (pc = "effects" /\ pc' # "effects") =>
           (effectQueue = <<>> /\ pc' = "none")
    ]_vars

C22_Witness ==
  /\ pc = "effects" /\ sched = "Flushing" /\ renderNo >= 3
  /\ ranInPass = {0} /\ Len(effectQueue) = 1 /\ Head(effectQueue).idx = 2

\* C23 -- Asynchronous completion: a request an effect body starts is in
\* flight when the body returns; a reaction of its promise chain starts only
\* when no flush, effect pass or handler is in progress, as a task of its
\* own that stores nothing at its start, and the mutate call it makes on the
\* mounted instance opens a batch from Idle.
C23_AsyncCompletion ==
  [][ /\ \A r \in requests :
           (\E r2 \in requests' : r2.id = r.id /\ r2.stage # r.stage) =>
              /\ sched = "Idle" /\ ~newBatch /\ pc = "none" /\ task = <<>>
              /\ r.id <= renderNo
              /\ handler' \in {"Settle", "Finally"}
              /\ actsInTask' = 0 /\ nFlush' = 0 /\ nPass' = 0
              /\ componentStates' = componentStates
              /\ runs' = runs /\ renderNo' = renderNo
      /\ \A r2 \in requests' :
           (\A r \in requests : r.id # r2.id) =>
              (r2.stage = "inflight" /\ pc = "effects")
      /\ (handler \in {"Settle", "Finally"} /\ nMut' > nMut
            /\ mounted = "yes") =>
           (sched = "Idle" /\ sched' = "BatchOpen" /\ pc = "none")
    ]_vars

C23_Witness ==
  /\ Quiet /\ handler = "Finally" /\ nMut = 1 /\ nFlush = 1
  /\ rendered["loading"] = JsFalse /\ rendered["user"] = UserData(2)
  /\ \E r \in requests : r.userId = 2 /\ r.stage = "done" /\ r.outcome = "ok"

\* C24 -- Late completion: once the cleanup of the effect run that started a
\* request has been invoked (its controller is aborted), no step of the
\* request's completion, be it the reaction to a response, to a failure or
\* to the abort rejection, or the finally that follows, changes a state cell.
C24_LateCompletionNoOp ==
  [][ (handler \in {"Settle", "Finally"} /\ task # <<>>
        /\ \A r \in requests : r.aborted) =>
         componentStates' = componentStates
    ]_vars

\* What `if (v)` takes for false, UserFetch.jsx:29-30
Falsy(v) == v \in {JsFalse, Null, Undefined}

\* C25 -- UserFetcher render safety: whenever the values an activation
\* returned take the branch that reads user.name (loading and error both
\* falsy), user is an object, neither null nor undefined; the same holds of
\* the stored cells of the mounted instance whenever loading is false and
\* error is null.
C25_RenderSafety ==
  /\ (renderNo >= 1 /\ Falsy(rendered["loading"]) /\ Falsy(rendered["error"]))
        => ~Falsy(rendered["user"])
  /\ (mounted = "yes" /\ Value("loading") = JsFalse /\ Value("error") = Null)
        => ~Falsy(Value("user"))

C25_Witness ==
  /\ Quiet /\ rendered["loading"] = JsFalse /\ rendered["error"] = Null
  /\ rendered["userId"] = 2 /\ rendered["user"] = UserData(2)
  /\ Value("user") = UserData(2)

\* A request of the mounted instance has completed with outcome o and its
\* effect run is still the current one (its cleanup was not invoked).
Completed(o) ==
  /\ mounted = "yes"
  /\ \E r \in requests :
        r.stage = "settled" /\ r.outcome \in o /\ ~r.aborted

\* C26 -- UserFetcher loading: every run of the effect body leaves loading
\* true and error null in the cells and one more request in flight, for the
\* userId of its activation; once that request has completed with a
\* response, an activation eventually returns loading false and the user of
\* the current userId; once it has completed with a failure other than an
\* abort, an activation eventually returns loading false and the failure
\* message as error.
C26_LoadingLiveness ==
  /\ [][ runs'[0] = runs[0] + 1 =>
            /\ componentStates'[readSlot["loading"]] = JsTrue
            /\ componentStates'[readSlot["error"]] = Null
            /\ \E r \in requests' \ requests :
                  /\ r.userId = rendered["userId"]
                  /\ r.stage = "inflight" /\ ~r.aborted
     ]_vars
  /\ Completed({"ok"}) ~>
        (/\ rendered["loading"] = JsFalse
         /\ rendered["user"] = UserData(rendered["userId"])
         /\ rendered["error"] = Null)
  /\ Completed({"httpError", "netError"}) ~>
        (/\ rendered["loading"] = JsFalse
         /\ rendered["error"] = ErrorMessage)

C26_Witness ==
  /\ Quiet /\ handler = "Finally" /\ rendered["loading"] = JsFalse
  /\ rendered["error"] = ErrorMessage /\ rendered["userId"] = 2
  /\ rendered["user"] = UserData(1)
  /\ \E r \in requests : r.userId = 2 /\ r.outcome = "httpError"

\* C27 -- Stored value kept: an activation after the first changes no
\* stored value and returns for the cell the value stored in its slot,
\* whatever that value is, undefined (stored by the interval's
\* setCount(prev => console.log(prev))) and null included: the cell is not
\* seeded again with its initial value.
C27_StoredValueKept ==
  [][ (renderNo >= 1 /\ renderNo' = renderNo + 1) =>
         /\ componentStates' = componentStates
         /\ rendered'["a"] = componentStates[readSlot["a"]]
    ]_vars

\* C28 -- Thunk initializer: once the component registered with an
\* initializer thunk has been activated and no handler has run yet, its cell
\* holds the thunk's result, not the thunk, and the activation returned that
\* result.
C28_ThunkInitializer ==
  (config = "lazy" /\ mounted = "yes" /\ renderNo >= 1 /\ handler = "none") =>
     /\ Value("a") = LazyValue
     /\ rendered["a"] = LazyValue

C30_CleanupAtMostOnce ==
  (mounted = "yes" /\ pc = "none") =>
     \A i \in EffectIds : effectCallbacks[i].cleanup = out[i]

C32_ReducerDeterminism ==
  lastAction.type # "none" =>
     TodoReducer(prevTodos, lastAction, clock) = todos

\* C33 -- Todo id uniqueness: the ids of the items in todos are pairwise
\* distinct, so a 'remove' takes out exactly one item.
C33_TodoIdsUnique ==
  /\ \A j, k \in 1 .. Len(todos) : j # k => todos[j].id # todos[k].id
  /\ (lastAction.type = "remove" /\ handler = "TodoDel") =>
        Len(todos) = Len(prevTodos) - 1

\* C34 -- Unknown action: after the dispatch of an action whose type is
\* neither 'add' nor 'remove' the todo list is the list as it was, and that
\* dispatch has opened no batch: no re-activation is scheduled.
C34_UnknownAction ==
  handler = "TodoOther" => (todos = prevTodos /\ sched = "Idle")

\* C35 -- Update after teardown: once the instance is torn down no step
\* changes the value of a cell, makes an activation, runs an effect body or
\* opens a batch.
C35_UpdateAfterTeardownNoOp ==
  [][ (mounted = "torndown" /\ mounted' = "torndown") =>
         /\ componentStates' = componentStates
         /\ renderNo' = renderNo
         /\ runs' = runs
         /\ sched' = sched
    ]_vars

\* C36 -- UserFetcher userId bound: the stored userId of the mounted
\* instance and the userId an activation returned are at least 1; the call a Prev click makes leaves a
\* userId of 1 at 1 and lowers any other by one, the call a Next click makes
\* raises it by exactly one, and no other step of the mounted instance after
\* its first activation changes it.
C36_UserIdBound ==
  /\ []((config = "fetch" /\ renderNo >= 1) =>
          /\ mounted = "yes" => Value("userId") >= 1
          /\ rendered["userId"] >= 1)
  /\ [][ LET id == Value("userId")
             id2 == componentStates'[SlotOf("userId")]
             call == task # <<>> /\ task' = Tail(task)
         IN  /\ (call /\ handler = "Prev") =>
                   id2 = (IF id = 1 THEN 1 ELSE id - 1)
             /\ (call /\ handler = "Next") => id2 = id + 1
             /\ (renderNo >= 1 /\ mounted' = "yes"
                   /\ ~(call /\ handler \in FetchHandlers)) => id2 = id
       ]_vars

C36_Witness ==
  /\ config = "fetch" /\ handler = "Prev" /\ task = <<>> /\ nMut = 1
  /\ tasksDone = 3 /\ rendered["userId"] = 1 /\ Value("userId") = 1
  /\ sched = "BatchOpen"

\* C37 -- UserFetcher error recovery: whenever the mounted instance is at
\* rest showing an error, with clicks left to the host, a user action is
\* available: a handler of a button can be started.
C37_ErrorRecovery ==
  (Quiet /\ err = "None" /\ rendered["error"] # Null
     /\ rendered["loading"] = JsFalse /\ tasksDone < MaxTasks
     /\ \A r \in requests : r.stage = "done") =>
       ENABLED (\E h \in FetchHandlers : StartTask(h))

====
